---- MODULE Spec2Model ----
(***************************************************************************)
(* A model of the self-ref-buffer crate: the persistent buffer and its     *)
(* fill handle (src/src/buffer.rs), the line reader (src/src/reader.rs)    *)
(* the builder session / result bundle (src/src/pair.rs), and the          *)
(* read_line test with its LimitReader (src/src/tests.rs).                 *)
(*                                                                         *)
(* A buffer is an entry of `heap`; its index is its allocation identity    *)
(* (what Rc::ptr_eq compares).  A BufMut is a record [id, consumed,        *)
(* filled] pointing into the heap.                                         *)
(***************************************************************************)
EXTENDS Integers, Sequences, FiniteSets, TLC

\* ---------------------------------------------------------------- bounds
MaxSrc == 3         \* longest source byte string
MaxCap == 2         \* largest initial capacity of the reader
MaxErrs == 1        \* source read failures per run
MaxCalls == 5       \* read_line calls per run
WordBits == 4       \* width of usize in the model
MaxBufMuts == 2     \* BufMut::new calls in the stand-alone handle runs
MaxSessions == 1    \* BufPair::new calls per run
MaxShort == 1       \* reads per run that a limited source answers short
TestWordBits == 16  \* width of usize in the runs of the read_line test
MaxKept == 1        \* Bytes a caller holds at a time


\* ------------------------------------------------------------- constants
LF == 10            \* b'\n'
ZeroByte == 0       \* the byte a new buffer is filled with
TestLimit == 8      \* LimitReader::new(s.as_bytes(), 8)
TestCapacity == 100 \* SharedReader::new(&mut b, 100)
TestCalls == 6      \* the read_line calls of the read_line test

\* Bytes a source can hold: the line feed and one other byte.
SourceBytes == {LF, 97}
\* Bytes written through a stand-alone BufMut.
HandleBytes == {97}
\* Errors a source read can fail with.
IoErrors == {"Interrupted", "UnexpectedEof"}
\* Errors a construction function can return.
MakeErrors == {"InvalidData", "Interrupted"}

VARIABLES
    reader,             \* the byte source: [bytes, pos, errs, raised, limit,
                        \* short]; limit 0 is a source read without a
                        \* LimitReader
    usize_bits,         \* the width of usize in this run
    heap,               \* the buffers allocated so far, by identity
    buf,                \* SharedReader.buf: the current BufMut
    initial_capacity,   \* SharedReader.initial_capacity
    pc,                 \* "idle", "loop" (inside read_line's loop), "panicked"
    cur,                \* the running call: [len, grew, reads]
    dropped,            \* the BufMuts replaced by growth (history)
    calls,              \* one record per finished read_line call (history)
    builder,            \* BufBuilder: [active, bufs]
    views,              \* the byte views the running session handed out, in order
    made,               \* what the construction function returned last, and
                        \* the reads it had made
    result,             \* what the last BufPair::new returned
    sessions,           \* BufPair::new calls so far
    hb,                 \* a stand-alone BufMut (handle runs)
    hres,               \* what the last operation on hb returned
    seen,               \* the Buf the caller got from buffer(): [id, at], `at`
                        \* the number of calls made before
    keeps,              \* whether the caller of this run keeps Bytes at all
    kept                \* the calls whose Bytes the caller holds

vars == <<reader, usize_bits, heap, buf, initial_capacity, pc, cur, dropped, calls,
          builder, views, made, result, sessions, hb, hres, seen, keeps, kept>>

readerVars == <<reader, usize_bits, buf, initial_capacity, pc, cur, dropped, calls>>
pairVars == <<builder, views, made, result, sessions>>
handleVars == <<hb, hres>>
callerVars == <<seen, keeps, kept>>

\* ---------------------------------------------------------------- helpers
Max(a, b) == IF a >= b THEN a ELSE b
Min(a, b) == IF a <= b THEN a ELSE b
Range(s) == {s[i] : i \in 1..Len(s)}
Last(s) == s[Len(s)]
SeqsUpTo(S, n) == UNION {[1..k -> S] : k \in 0..n}

RECURSIVE Concat(_)
Concat(ss) == IF ss = <<>> THEN <<>> ELSE Head(ss) \o Concat(Tail(ss))

Word == 2 ^ usize_bits

\* usize addition: below 2^w it is exact; at or above, a build with overflow
\* checks panics and a build without them wraps.
UsizeAdd(a, n) ==
    IF a + n < Word
    THEN {[panic |-> FALSE, val |-> a + n]}
    ELSE {[panic |-> TRUE, val |-> 0],
          [panic |-> FALSE, val |-> (a + n) % Word]}

\* ------------------------------------------------------------ buffer.rs
\* BufMut::new: a zero-filled buffer of `capacity` bytes, both cursors 0.
BufMutNew(hp, capacity) ==
    [heap |-> Append(hp, [i \in 1..capacity |-> ZeroByte]),
     bm |-> [id |-> Len(hp) + 1, consumed |-> 0, filled |-> 0]]

Capacity(hp, b) == Len(hp[b.id])
consumedBytes(hp, b) == SubSeq(hp[b.id], 1, b.consumed)
available(hp, b) == SubSeq(hp[b.id], b.consumed + 1, b.filled)
\* A writable region that starts at `consumed` (overwrites available bytes).
unfilledStartAtConsumed(b) == b.consumed
\* unfilled(): the writable region starts at `filled`.
unfilledStart(b) == b.filled
unfilledLen(hp, b) == Capacity(hp, b) - unfilledStart(b)

\* Writing `data` through the slice unfilled() returned.
WriteUnfilled(hp, b, data) ==
    [hp EXCEPT ![b.id] =
        [i \in 1..Len(@) |->
            IF i > unfilledStart(b) /\ i <= unfilledStart(b) + Len(data)
            THEN data[i - unfilledStart(b)] ELSE @[i]]]

Panicked(b) == [panic |-> TRUE, bm |-> b, off |-> 0, len |-> 0]

\* BufMut::consume: the outcomes the build can produce.
consume(b, n) ==
    {IF s.panic \/ ~(s.val <= b.filled)
     THEN Panicked(b)
     ELSE [panic |-> FALSE, bm |-> [b EXCEPT !.consumed = s.val],
           off |-> b.consumed, len |-> n]
     : s \in UsizeAdd(b.consumed, n)}

\* A fill that returns the range and leaves the filled cursor where it was.
fillKeepsCursor(hp, b, n) ==
    {IF s.panic \/ ~(s.val <= Capacity(hp, b))
     THEN Panicked(b)
     ELSE [panic |-> FALSE, bm |-> b, off |-> b.filled, len |-> n]
     : s \in UsizeAdd(b.filled, n)}

\* BufMut::fill
fill(hp, b, n) ==
    {IF s.panic \/ ~(s.val <= Capacity(hp, b))
     THEN Panicked(b)
     ELSE [panic |-> FALSE, bm |-> [b EXCEPT !.filled = s.val],
           off |-> b.filled, len |-> n]
     : s \in UsizeAdd(b.filled, n)}

\* BufMut::append: unfilled[..data.len()] panics when data does not fit.
append(hp, b, data) ==
    IF Len(data) > unfilledLen(hp, b)
    THEN [panic |-> TRUE, heap |-> hp, bm |-> b]
    ELSE [panic |-> FALSE, heap |-> WriteUnfilled(hp, b, data),
          bm |-> [b EXCEPT !.filled = @ + Len(data)]]

\* A handle to the first buffer of the heap, whatever the BufMut writes now.
borrowFirst(b) == 1

\* BufMut::borrow: a Buf handle to the buffer the BufMut writes.
borrow(b) == b.id

\* Buffers compared by content.
BufEqByContent(hp, a, b) == hp[a] = hp[b]

\* Buf's PartialEq: Rc::ptr_eq, the identity of the allocation.
BufEq(hp, a, b) == a = b

\* The bytes of a slice (buffer, offset, length) as its holder reads them.
SliceBytes(hp, v) == SubSeq(hp[v.buf], v.off + 1, v.off + v.len)

\* ------------------------------------------------------------ reader.rs
\* The offset of the last line feed instead of the first.
find_lf_last(s) ==
    LET I == {i \in 1..Len(s) : s[i] = LF}
    IN  IF I = {} THEN [some |-> FALSE, i |-> 0]
        ELSE [some |-> TRUE, i |-> (CHOOSE i \in I : \A j \in I : i >= j) - 1]

\* find_lf: the offset of the first line feed, if any.
find_lf(s) ==
    LET I == {i \in 1..Len(s) : s[i] = LF}
    IN  IF I = {} THEN [some |-> FALSE, i |-> 0]
        ELSE [some |-> TRUE, i |-> (CHOOSE i \in I : \A j \in I : i <= j) - 1]

\* The source's read(dest): an error, 0 at end of stream (or for an empty
\* destination), or any positive number of bytes that fit. A LimitReader cuts
\* the destination to `limit` bytes and passes the read on; the reader under it
\* fills that, or (MaxShort times a run) returns fewer bytes.
Read(rd, destLen) ==
    LET remaining == Len(rd.bytes) - rd.pos
        len == IF rd.limit > 0 THEN Min(destLen, rd.limit) ELSE destLen
        most == Min(len, remaining)
    IN  {[err |-> e, n |-> 0, short |-> 0] :
            e \in IF rd.errs < MaxErrs THEN IoErrors ELSE {}}
        \cup
        (IF most = 0
         THEN {[err |-> "", n |-> 0, short |-> 0]}
         ELSE IF rd.limit > 0
         THEN {[err |-> "", n |-> most, short |-> 0]}
              \cup {[err |-> "", n |-> k, short |-> 1] :
                        k \in IF rd.short < MaxShort THEN 1..(most - 1) ELSE {}}
         ELSE {[err |-> "", n |-> k, short |-> 0] : k \in 1..most})

\* A growth capacity without the initial-capacity floor.
GrowCapacityNoFloor(partial, ic) == Len(partial) * 2

\* A growth capacity that does not double the carried bytes.
GrowCapacityNoDouble(partial, ic) == Max(Len(partial), ic)

\* The capacity of the buffer a growth allocates.
GrowCapacity(partial, ic) == Max(Len(partial) * 2, ic)

\* A growth at every iteration, whether the buffer is full or not.
GrowAlways(hp, b, ic) ==
    LET partial == available(hp, b)
        nb == BufMutNew(hp, GrowCapacity(partial, ic))
        ap == append(nb.heap, nb.bm, partial)
    IN  [grew |-> TRUE, panic |-> ap.panic, heap |-> ap.heap, bm |-> ap.bm]

\* A growth that does not copy the available bytes to the new buffer.
GrowLosesPartial(hp, b, ic) ==
    IF unfilledLen(hp, b) = 0
    THEN LET nb == BufMutNew(hp, GrowCapacity(available(hp, b), ic))
         IN  [grew |-> TRUE, panic |-> FALSE, heap |-> nb.heap, bm |-> nb.bm]
    ELSE [grew |-> FALSE, panic |-> FALSE, heap |-> hp, bm |-> b]

\* The growth step at the top of read_line's loop.
Grow(hp, b, ic) ==
    IF unfilledLen(hp, b) = 0
    THEN LET partial == available(hp, b)
             nb == BufMutNew(hp, GrowCapacity(partial, ic))
             ap == append(nb.heap, nb.bm, partial)
         IN  [grew |-> TRUE, panic |-> ap.panic, heap |-> ap.heap, bm |-> ap.bm]
    ELSE [grew |-> FALSE, panic |-> FALSE, heap |-> hp, bm |-> b]

\* ---------------------------------------------------------------- pair.rs
\* Bookkeeping that compares the buffer of the line with the first entry.
TrackComparesFirst(hp, bufs, id) ==
    IF Len(bufs) > 0 /\ BufEq(hp, bufs[1], id) THEN bufs ELSE Append(bufs, id)

\* Bookkeeping that records only the first buffer of a session.
TrackFirstOnly(hp, bufs, id) == IF Len(bufs) > 0 THEN bufs ELSE Append(bufs, id)

\* Bookkeeping that pushes the buffer of every line.
TrackAlways(hp, bufs, id) == Append(bufs, id)

\* BufBuilder::read_line's bookkeeping: the buffer of the line is pushed
\* unless it is the last entry of the list.
Track(hp, bufs, id) ==
    IF Len(bufs) > 0 /\ BufEq(hp, Last(bufs), id) THEN bufs ELSE Append(bufs, id)

NoCall == [len |-> 0, grew |-> 0, reads |-> 0]
NoBuilder == [active |-> FALSE, bufs |-> <<>>]
NoResult == [kind |-> "none", dependent |-> <<>>, owner |-> <<>>, err |-> ""]
NotMade == [ok |-> FALSE, value |-> <<>>, err |-> "", reads |-> 0]
NoBufMut == [id |-> 0, consumed |-> 0, filled |-> 0]
NoHandleResult == [op |-> "none", n |-> 0, panic |-> FALSE, off |-> 0, len |-> 0]
NoBuf == [id |-> 0, at |-> 0]

\* What the caller does with the Bytes call i returned: a caller that keeps
\* Bytes (at most MaxKept at a time) holds it or lets it go at once.
Keep(i) ==
    IF keeps /\ ~builder.active /\ Cardinality(kept) < MaxKept
    THEN {kept, kept \cup {i}}
    ELSE {kept}

\* ------------------------------------------------------------------ Init
\* SharedReader::new over a source holding any byte string up to MaxSrc,
\* with any positive initial capacity up to MaxCap.
Init ==
    /\ \E bytes \in SeqsUpTo(SourceBytes, MaxSrc) :
          reader = [bytes |-> bytes, pos |-> 0, errs |-> 0, raised |-> "",
                    limit |-> 0, short |-> 0]
    /\ usize_bits = WordBits
    /\ initial_capacity \in 1..MaxCap
    /\ heap = BufMutNew(<<>>, initial_capacity).heap
    /\ buf = BufMutNew(<<>>, initial_capacity).bm
    /\ pc = "idle"
    /\ cur = NoCall
    /\ dropped = {}
    /\ calls = <<>>
    /\ builder = NoBuilder
    /\ views = <<>>
    /\ made = NotMade
    /\ result = NoResult
    /\ sessions = 0
    /\ hb = NoBufMut
    /\ hres = NoHandleResult
    /\ seen = NoBuf
    /\ keeps = FALSE
    /\ kept = {}

\* --------------------------------------------------- SharedReader::read_line
\* The end of read_line: consume(len) and the Bytes it returns; when the call
\* came through a session, BufBuilder::read_line's bookkeeping follows, and
\* the Bytes ends there; the Bytes of a direct call goes to the caller.
Return(hp, rd, b, l, grew, reads, eof) ==
    \E r \in consume(b, l) :
        /\ heap' = hp
        /\ reader' = rd
        /\ cur' = NoCall
        /\ IF r.panic
           THEN /\ pc' = "panicked"
                /\ buf' = b
                /\ UNCHANGED <<calls, builder, views, kept>>
           ELSE /\ pc' = "idle"
                /\ buf' = r.bm
                /\ kept' \in Keep(Len(calls) + 1)
                /\ calls' = Append(calls,
                      [ok |-> TRUE, err |-> "", buf |-> r.bm.id, off |-> r.off,
                       len |-> r.len,
                       data |-> SubSeq(hp[r.bm.id], r.off + 1, r.off + r.len),
                       grew |-> grew, reads |-> reads, eof |-> eof])
                /\ IF builder.active
                   THEN /\ builder' = [builder EXCEPT !.bufs = Track(hp, @, r.bm.id)]
                        /\ views' = Append(views,
                              [buf |-> r.bm.id, off |-> r.off, len |-> r.len])
                   ELSE UNCHANGED <<builder, views>>
        /\ UNCHANGED <<initial_capacity, usize_bits, made, result, sessions, hb, hres,
                       seen, keeps>>

\* The calls of a run: those of the read_line test over its source, up to the
\* bound otherwise.
CallCap == IF reader.limit > 0 THEN TestCalls ELSE MaxCalls

\* A call may start when the reader is idle (the bound caps the run).
CanCall == pc = "idle" /\ Len(calls) < CallCap

\* read_line, first branch: available() holds a line feed.
ReadLineBuffered ==
    /\ CanCall
    /\ find_lf(available(heap, buf)).some
    /\ Return(heap, reader, buf, find_lf(available(heap, buf)).i + 1, 0, 0, FALSE)
    /\ UNCHANGED dropped

\* A loop entered whether or not the available bytes hold a line feed.
AtLoopAlways == pc = "loop" \/ CanCall

\* The loop of read_line is entered by a call that found no line feed, or
\* continued.
AtLoop ==
    \/ pc = "loop"
    \/ CanCall /\ ~find_lf(available(heap, buf)).some

\* `len` at the top of the loop.
LoopLen == IF pc = "idle" THEN Len(available(heap, buf)) ELSE cur.len

\* The state after the growth step of this iteration.
Grown == Grow(heap, buf, initial_capacity)
GrewNow == IF Grown.grew THEN 1 ELSE 0
Dropped == IF Grown.grew THEN dropped \cup {buf} ELSE dropped

\* What the source may answer to this iteration's read.
ReadNow == Read(reader, unfilledLen(Grown.heap, Grown.bm))

\* An iteration that retries an interrupted read instead of returning it.
IterErrRetriesInterrupted ==
    /\ AtLoop /\ ~Grown.panic
    /\ \E o \in ReadNow :
        /\ o.err # ""
        /\ reader' = [reader EXCEPT !.errs = @ + 1, !.raised = o.err]
        /\ heap' = Grown.heap
        /\ buf' = Grown.bm
        /\ dropped' = Dropped
        /\ IF o.err = "Interrupted"
           THEN /\ pc' = "loop"
                /\ cur' = [len |-> LoopLen, grew |-> cur.grew + GrewNow,
                           reads |-> cur.reads + 1]
                /\ calls' = calls
           ELSE /\ pc' = "idle"
                /\ cur' = NoCall
                /\ calls' = Append(calls,
                      [ok |-> FALSE, err |-> o.err, buf |-> 0, off |-> 0, len |-> 0,
                       data |-> available(Grown.heap, Grown.bm),
                       grew |-> cur.grew + GrewNow,
                       reads |-> cur.reads + 1, eof |-> FALSE])
        /\ UNCHANGED <<initial_capacity, usize_bits, pairVars, handleVars,
                       callerVars>>

\* An iteration whose read fails: `?` returns the error.
IterErr ==
    /\ AtLoop /\ ~Grown.panic
    /\ \E o \in ReadNow :
        /\ o.err # ""
        /\ reader' = [reader EXCEPT !.errs = @ + 1, !.raised = o.err]
        /\ heap' = Grown.heap
        /\ buf' = Grown.bm
        /\ dropped' = Dropped
        /\ pc' = "idle"
        /\ cur' = NoCall
        /\ calls' = Append(calls,
              [ok |-> FALSE, err |-> o.err, buf |-> 0, off |-> 0, len |-> 0,
               data |-> available(Grown.heap, Grown.bm), grew |-> cur.grew + GrewNow,
               reads |-> cur.reads + 1, eof |-> FALSE])
        /\ UNCHANGED <<initial_capacity, usize_bits, pairVars, handleVars,
                       callerVars>>

\* An iteration whose read returns 0: the loop ends, the line is what was
\* accumulated.
IterEof ==
    /\ AtLoop /\ ~Grown.panic
    /\ \E o \in ReadNow :
        /\ o.err = "" /\ o.n = 0
        /\ dropped' = Dropped
        /\ Return(Grown.heap, reader, Grown.bm, LoopLen,
                  cur.grew + GrewNow, cur.reads + 1, TRUE)

\* The source's bytes of a read of n, and the state after fill(n).
ReadBytes(n) == SubSeq(reader.bytes, reader.pos + 1, reader.pos + n)
Written(n) == WriteUnfilled(Grown.heap, Grown.bm, ReadBytes(n))

\* An iteration whose read returns n > 0 bytes holding a line feed.
IterLine ==
    /\ AtLoop /\ ~Grown.panic
    /\ \E o \in ReadNow : \E f \in fill(Grown.heap, Grown.bm, o.n) :
        /\ o.err = "" /\ o.n > 0 /\ ~f.panic
        /\ find_lf(SubSeq(Written(o.n)[f.bm.id], f.off + 1, f.off + f.len)).some
        /\ dropped' = Dropped
        /\ Return(Written(o.n),
                  [reader EXCEPT !.pos = @ + o.n, !.short = @ + o.short], f.bm,
                  LoopLen
                  + find_lf(SubSeq(Written(o.n)[f.bm.id], f.off + 1, f.off + f.len)).i
                  + 1,
                  cur.grew + GrewNow, cur.reads + 1, FALSE)

\* An iteration whose read returns n > 0 bytes without a line feed.
IterMore ==
    /\ AtLoop /\ ~Grown.panic
    /\ \E o \in ReadNow : \E f \in fill(Grown.heap, Grown.bm, o.n) :
        /\ o.err = "" /\ o.n > 0 /\ ~f.panic
        /\ ~find_lf(SubSeq(Written(o.n)[f.bm.id], f.off + 1, f.off + f.len)).some
        /\ reader' = [reader EXCEPT !.pos = @ + o.n, !.short = @ + o.short]
        /\ heap' = Written(o.n)
        /\ buf' = f.bm
        /\ dropped' = Dropped
        /\ pc' = "loop"
        /\ cur' = [len |-> LoopLen + o.n, grew |-> cur.grew + GrewNow,
                   reads |-> cur.reads + 1]
        /\ UNCHANGED <<initial_capacity, usize_bits, calls, pairVars, handleVars,
                       callerVars>>

\* SharedReader::buffer: a handle to the current buffer. The reader is
\* borrowed for the whole of a call and of a session, so the caller calls it
\* between them.
BufferCall ==
    /\ pc = "idle" /\ ~builder.active
    /\ seen' = [id |-> borrow(buf), at |-> Len(calls)]
    /\ UNCHANGED <<heap, readerVars, pairVars, handleVars, keeps, kept>>

\* ----------------------------------------------------------- BufPair::new
\* BufPair::new creates the session; the construction function then runs.
SessionBegin ==
    /\ pc = "idle" /\ ~builder.active
    /\ sessions < MaxSessions
    /\ sessions' = sessions + 1
    /\ builder' = [active |-> TRUE, bufs |-> <<>>]
    /\ views' = <<>>
    /\ made' = NotMade
    /\ result' = NoResult
    /\ UNCHANGED <<heap, readerVars, handleVars, callerVars>>

\* A BufPair::new that reports every failure as one fixed error.
PairResultWrapsError(b, m) ==
    IF m.ok
    THEN [kind |-> "bundle", dependent |-> m.value, owner |-> b.bufs, err |-> ""]
    ELSE [kind |-> "err", dependent |-> <<>>, owner |-> <<>>, err |-> "InvalidData"]

\* What BufPair::new returns for the construction function's result m: `?`
\* returns its error; otherwise the value is paired with the tracked list.
PairResult(b, m) ==
    IF m.ok
    THEN [kind |-> "bundle", dependent |-> m.value, owner |-> b.bufs, err |-> ""]
    ELSE [kind |-> "err", dependent |-> <<>>, owner |-> <<>>, err |-> m.err]

\* A BufPair::new that, when the construction function fails, moves the
\* consumed cursor back to the first line the session read.
PairReturnRewinds(m) ==
    /\ pc = "idle" /\ builder.active
    /\ made' = m
    /\ result' = PairResult(builder, m)
    /\ builder' = NoBuilder
    /\ views' = <<>>
    /\ buf' = (IF ~m.ok /\ views # <<>> /\ views[1].buf = buf.id
               THEN [buf EXCEPT !.consumed = views[1].off]
               ELSE buf)
    /\ UNCHANGED <<heap, reader, usize_bits, initial_capacity, pc, cur, dropped,
                   calls, sessions, handleVars, callerVars>>

\* The end of BufPair::new; the builder is consumed or dropped.
PairReturn(m) ==
    /\ pc = "idle" /\ builder.active
    /\ made' = m
    /\ result' = PairResult(builder, m)
    /\ builder' = NoBuilder
    /\ views' = <<>>
    /\ UNCHANGED <<heap, readerVars, sessions, handleVars, callerVars>>

\* The construction function returns a value borrowing the views it got.
MakeOk == PairReturn([ok |-> TRUE, value |-> views, err |-> "", reads |-> Len(views)])

\* The construction function fails.
MakeErr ==
    \E e \in MakeErrors :
        PairReturn([ok |-> FALSE, value |-> <<>>, err |-> e, reads |-> Len(views)])

\* The reader used directly.
Next ==
    \/ ReadLineBuffered
    \/ IterErr
    \/ IterEof
    \/ IterLine
    \/ IterMore

Spec == Init /\ [][Next]_vars

\* An iteration of the loop of a call that is running.
LoopStep == pc = "loop" /\ (IterErr \/ IterEof \/ IterLine \/ IterMore)

\* read_line is sequential code: a call that is in its loop goes on to the
\* next iteration, and the source answers every read.
SpecLive == Init /\ [][Next]_vars /\ WF_vars(LoopStep)

\* The reader used directly, with buffer() called between the calls.
NextBuffer ==
    \/ ReadLineBuffered
    \/ IterErr
    \/ IterEof
    \/ IterLine
    \/ IterMore
    \/ BufferCall

SpecBuffer == Init /\ [][NextBuffer]_vars

\* The reader used directly and through BufPair::new.
NextPair ==
    \/ ReadLineBuffered
    \/ IterErr
    \/ IterEof
    \/ IterLine
    \/ IterMore
    \/ SessionBegin
    \/ MakeOk
    \/ MakeErr

SpecPair == Init /\ [][NextPair]_vars

\* ------------------------------------------------- a BufMut used directly
InitBufMut ==
    /\ reader = [bytes |-> <<>>, pos |-> 0, errs |-> 0, raised |-> "",
                 limit |-> 0, short |-> 0]
    /\ usize_bits = WordBits
    /\ initial_capacity = 1
    /\ \E capacity \in 0..MaxCap :
          /\ heap = BufMutNew(<<>>, capacity).heap
          /\ hb = BufMutNew(<<>>, capacity).bm
    /\ buf = NoBufMut
    /\ pc = "idle"
    /\ cur = NoCall
    /\ dropped = {}
    /\ calls = <<>>
    /\ builder = NoBuilder
    /\ views = <<>>
    /\ made = NotMade
    /\ result = NoResult
    /\ sessions = 0
    /\ hres = NoHandleResult
    /\ seen = NoBuf
    /\ keeps = FALSE
    /\ kept = {}

HandleResult(op, n, r) ==
    [op |-> op, n |-> n, panic |-> r.panic, off |-> r.off, len |-> r.len]

\* BufMut::new; the handle it replaces is dropped, and its buffer, which has
\* no other holder in these runs, is freed with it.
HNew ==
    /\ Len(heap) < MaxBufMuts
    /\ \E capacity \in 0..MaxCap :
          LET freed == [heap EXCEPT ![hb.id] = <<>>]
          IN  /\ heap' = BufMutNew(freed, capacity).heap
              /\ hb' = BufMutNew(freed, capacity).bm
    /\ hres' = NoHandleResult
    /\ UNCHANGED <<readerVars, pairVars, callerVars>>

\* consume(n) for any n a usize holds
HConsume ==
    /\ \E n \in 0..(Word - 1) : \E r \in consume(hb, n) :
          /\ hb' = r.bm
          /\ hres' = HandleResult("consume", n, r)
    /\ UNCHANGED <<heap, readerVars, pairVars, callerVars>>

\* fill(n) for any n a usize holds
HFill ==
    /\ \E n \in 0..(Word - 1) : \E r \in fill(heap, hb, n) :
          /\ hb' = r.bm
          /\ hres' = HandleResult("fill", n, r)
    /\ UNCHANGED <<heap, readerVars, pairVars, callerVars>>

\* append(data)
HAppend ==
    /\ \E data \in SeqsUpTo(HandleBytes, MaxCap + 1) :
          LET r == append(heap, hb, data)
          IN  /\ heap' = r.heap
              /\ hb' = r.bm
              /\ hres' = HandleResult("append", Len(data),
                                      [panic |-> r.panic, off |-> hb.filled,
                                       len |-> Len(data)])
    /\ UNCHANGED <<readerVars, pairVars, callerVars>>

\* A write through the slice unfilled() returns.
HWrite ==
    /\ \E data \in SeqsUpTo(HandleBytes, MaxCap) :
          /\ Len(data) > 0
          /\ Len(data) <= unfilledLen(heap, hb)
          /\ heap' = WriteUnfilled(heap, hb, data)
    /\ hres' = NoHandleResult
    /\ UNCHANGED <<hb, readerVars, pairVars, callerVars>>

NextBufMut ==
    \/ HNew
    \/ HConsume
    \/ HFill
    \/ HAppend
    \/ HWrite

SpecBufMut == InitBufMut /\ [][NextBufMut]_vars

\* ------------------------------------------------ holders and their drops
\* The holders of buffer id: the reader's BufMut, the Bytes and the Buf the
\* caller holds, the entries of the session's list, and those of the bundle.
Holders(id) ==
    (IF buf.id = id THEN 1 ELSE 0)
    + Cardinality({i \in kept : calls[i].buf = id})
    + (IF seen.id = id THEN 1 ELSE 0)
    + Cardinality({i \in 1..Len(builder.bufs) : builder.bufs[i] = id})
    + Cardinality({i \in 1..Len(result.owner) : result.owner[i] = id})

\* Rc frees an allocation when its last holder is dropped.
Freed(id) == Holders(id) = 0

\* A reader whose caller may keep the Bytes it gets.
InitHold ==
    /\ \E bytes \in SeqsUpTo(SourceBytes, MaxSrc) :
          reader = [bytes |-> bytes, pos |-> 0, errs |-> 0, raised |-> "",
                    limit |-> 0, short |-> 0]
    /\ usize_bits = WordBits
    /\ initial_capacity \in 1..MaxCap
    /\ heap = BufMutNew(<<>>, initial_capacity).heap
    /\ buf = BufMutNew(<<>>, initial_capacity).bm
    /\ pc = "idle"
    /\ cur = NoCall
    /\ dropped = {}
    /\ calls = <<>>
    /\ builder = NoBuilder
    /\ views = <<>>
    /\ made = NotMade
    /\ result = NoResult
    /\ sessions = 0
    /\ hb = NoBufMut
    /\ hres = NoHandleResult
    /\ seen = NoBuf
    /\ keeps = TRUE
    /\ kept = {}

\* The caller drops a Bytes it holds.
DropBytes ==
    /\ \E i \in kept : kept' = kept \ {i}
    /\ UNCHANGED <<heap, readerVars, pairVars, handleVars, seen, keeps>>

\* The caller drops the bundle, the value and the list in it.
DropBundle ==
    /\ result.kind = "bundle"
    /\ result' = NoResult
    /\ made' = NotMade
    /\ UNCHANGED <<heap, readerVars, builder, views, sessions, handleVars,
                   callerVars>>

\* The reader over a source that does not fail, sessions, and a caller that
\* holds and drops the Bytes and the bundles it gets.
NextHold ==
    \/ ReadLineBuffered
    \/ IterEof
    \/ IterLine
    \/ IterMore
    \/ SessionBegin
    \/ MakeOk
    \/ MakeErr
    \/ DropBytes
    \/ DropBundle

SpecHold == InitHold /\ [][NextHold]_vars

\* ------------------------------------------------- the read_line test
\* The text of the test, byte by byte.
TestSource ==
    <<
      76, 111, 114, 101, 109, 32, 105, 112, 115, 117, 109, 32, 100, 111,
      108, 111, 114, 32, 115, 105, 116, 32, 97, 109, 101, 116, 44, 10, 99,
      111, 110, 115, 101, 99, 116, 101, 116, 117, 114, 32, 97, 100, 105,
      112, 105, 115, 99, 105, 110, 103, 32, 101, 108, 105, 116, 44, 10, 115,
      101, 100, 32, 100, 111, 32, 101, 105, 117, 115, 109, 111, 100, 32,
      116, 101, 109, 112, 111, 114, 32, 105, 110, 99, 105, 100, 105, 100,
      117, 110, 116, 32, 117, 116, 32, 108, 97, 98, 111, 114, 101, 32, 101,
      116, 32, 100, 111, 108, 111, 114, 101, 32, 109, 97, 103, 110, 97, 32,
      97, 108, 105, 113, 117, 97, 46, 10, 10, 85, 116, 32, 101, 110, 105,
      109, 32, 97, 100, 32, 109, 105, 110, 105, 109, 32, 118, 101, 110, 105,
      97, 109, 44, 32, 113, 117, 105, 115, 32, 110, 111, 115, 116, 114, 117,
      100, 32, 101, 120, 101, 114, 99, 105, 116, 97, 116, 105, 111, 110, 32,
      117, 108, 108, 97, 109, 99, 111, 32, 108, 97, 98, 111, 114, 105, 115,
      32, 110, 105, 115, 105, 32, 117, 116, 32, 97, 108, 105, 113, 117, 105,
      112, 32, 101, 120, 32, 101, 97, 32, 99, 111, 109, 109, 111, 100, 111,
      32, 99, 111, 110, 115, 101, 113, 117, 97, 116, 46
    >>

\* The test's reader: the text behind a LimitReader, initial capacity 100.
InitTest ==
    /\ reader = [bytes |-> TestSource, pos |-> 0, errs |-> 0, raised |-> "",
                 limit |-> TestLimit, short |-> 0]
    /\ usize_bits = TestWordBits
    /\ initial_capacity = TestCapacity
    /\ heap = BufMutNew(<<>>, initial_capacity).heap
    /\ buf = BufMutNew(<<>>, initial_capacity).bm
    /\ pc = "idle"
    /\ cur = NoCall
    /\ dropped = {}
    /\ calls = <<>>
    /\ builder = NoBuilder
    /\ views = <<>>
    /\ made = NotMade
    /\ result = NoResult
    /\ sessions = 0
    /\ hb = NoBufMut
    /\ hres = NoHandleResult
    /\ seen = NoBuf
    /\ keeps = FALSE
    /\ kept = {}

\* The test's calls; its source, a byte slice, never fails.
NextTest ==
    \/ ReadLineBuffered
    \/ IterEof
    \/ IterLine
    \/ IterMore

SpecTest == InitTest /\ [][NextTest]_vars

\* ================================================================ claims
\* The finished calls that returned a slice, in call order.
OkCalls == SelectSeq(calls, LAMBDA c : c.ok)
\* The bytes of the slices of a sequence of calls, as their holders read them.
Slices(cs) == [i \in 1..Len(cs) |-> SliceBytes(heap, cs[i])]
\* The indexes of the empty slices among the returned ones.
EmptyAt == {i \in 1..Len(OkCalls) : OkCalls[i].len = 0}
FirstEmpty == CHOOSE i \in EmptyAt : \A j \in EmptyAt : i <= j
IsPrefix(s, t) == Len(s) <= Len(t) /\ SubSeq(t, 1, Len(s)) = s

\* C1: the slices read_line returns, concatenated in call order, are always a
\* prefix of the source bytes, and up to and including the first empty slice
\* they are the source bytes exactly, for every source, every split into
\* partial reads and every positive initial capacity.
C1_ConcatIsSource ==
    /\ IsPrefix(Concat(Slices(OkCalls)), reader.bytes)
    /\ EmptyAt # {} =>
          Concat(Slices(SubSeq(OkCalls, 1, FirstEmpty))) = reader.bytes

\* A run over a source of full length, split into partial reads, that grew
\* and reached the empty slice.
C1_Witness ==
    /\ EmptyAt # {}
    /\ Len(reader.bytes) = MaxSrc
    /\ Len(heap) > 1
    /\ \E i \in 1..Len(OkCalls) : OkCalls[i].reads > 1 /\ OkCalls[i].grew > 0

\* The `filled` cursor of the BufMut that writes, or wrote, buffer id.
FilledOf(id) ==
    IF id = buf.id THEN buf.filled
    ELSE IF \E d \in dropped : d.id = id
         THEN (CHOOSE d \in dropped : d.id = id).filled
         ELSE 0

\* C2: in every step, the bytes of every slice returned so far stay what they
\* were when it was returned, and no byte below the `filled` cursor of any
\* buffer changes.
C2_ReturnedBytesStable ==
    [][/\ \A i \in 1..Len(calls') :
              calls'[i].ok => SliceBytes(heap', calls'[i]) = calls'[i].data
       /\ \A id \in 1..Len(heap) : \A i \in 1..FilledOf(id) :
              heap'[id][i] = heap[id][i]]_vars

\* A slice was returned, a later call read more bytes into the same buffer,
\* and a later growth replaced that buffer.
C2_Witness ==
    \E i \in 1..Len(calls) : \E j \in (i + 1)..Len(calls) :
        /\ calls[i].ok /\ calls[i].len > 0
        /\ calls[j].ok /\ calls[j].len > 0 /\ calls[j].reads > 0
        /\ calls[j].buf = calls[i].buf
        /\ Len(heap) > calls[i].buf

LineFeedsOf(s) == {i \in 1..Len(s) : s[i] = LF}

\* C3: a returned slice holds at most one line feed, which is then its last
\* byte; a slice that does not end in a line feed comes from a call during
\* which the source returned 0.
C3_OneTrailingLineFeed ==
    \A i \in 1..Len(calls) :
        calls[i].ok =>
            LET s == SliceBytes(heap, calls[i])
            IN  /\ LineFeedsOf(s) \subseteq {Len(s)}
                /\ Cardinality(LineFeedsOf(s)) <= 1
                /\ (LineFeedsOf(s) = {} => calls[i].eof)

\* One read brought two line feeds (the second line came from the buffer
\* without a read), and the last line had no line feed.
C3_Witness ==
    /\ \E i \in 2..Len(calls) :
          /\ calls[i].ok /\ calls[i].reads = 0
          /\ calls[i - 1].ok /\ calls[i - 1].reads > 0
    /\ \E i \in 1..Len(calls) :
          calls[i].ok /\ calls[i].eof /\ calls[i].len > 0

\* The last call before call j that returned a slice (0 when there is none).
PrevOk(j) ==
    LET I == {i \in 1..(j - 1) : calls[i].ok}
    IN  IF I = {} THEN 0 ELSE CHOOSE i \in I : \A k \in I : k <= i

RECURSIVE SumLen(_, _)
\* The bytes returned by the calls before call j.
SumLen(cs, j) ==
    IF j <= 1 THEN 0
    ELSE SumLen(cs, j - 1) + (IF cs[j - 1].ok THEN cs[j - 1].len ELSE 0)

RECURSIVE GrewBetween(_, _)
\* The growth events of the calls after call i, up to and including call j.
GrewBetween(i, j) == IF j <= i THEN 0 ELSE GrewBetween(i, j - 1) + calls[j].grew

\* All source bytes were returned before call j.
AllReturnedBefore(j) == SumLen(calls, j) = Len(reader.bytes)

\* C4 as stated: once all source bytes have been returned as lines, a further
\* call returns an empty slice from the buffer of the immediately preceding
\* call's slice.
C4_SameBufferOnceAllReturned ==
    \A j \in 2..Len(calls) :
        (calls[j].ok /\ calls[j - 1].ok /\ AllReturnedBefore(j)) =>
            /\ calls[j].len = 0
            /\ calls[j].buf = calls[j - 1].buf

\* C4, amended: once all source bytes have been returned, every further call
\* that returns returns an empty slice; once a call has seen the source return
\* 0, every further such call returns it, without growing, from the buffer of
\* the slice returned before it. The one call that moves to a new buffer is the
\* first after a last line whose line feed filled its buffer exactly.
C4_SameBufferAfterEof ==
    \A j \in 1..Len(calls) :
        calls[j].ok =>
            /\ AllReturnedBefore(j) => calls[j].len = 0 /\ calls[j].eof
            /\ (\E i \in 1..(j - 1) : calls[i].ok /\ calls[i].eof) =>
                  /\ calls[j].len = 0
                  /\ calls[j].grew = 0
                  /\ calls[j].buf = calls[PrevOk(j)].buf
            /\ (j > 1 /\ calls[j - 1].ok /\ AllReturnedBefore(j)
                /\ calls[j].buf # calls[j - 1].buf) =>
                  /\ ~calls[j - 1].eof
                  /\ calls[j - 1].off + calls[j - 1].len
                        = Len(heap[calls[j - 1].buf])
                  /\ calls[j].grew = 1

\* The last line filled its buffer, the next call returned the empty slice
\* from a new buffer, and the call after it from that same buffer.
C4_Witness ==
    \E j \in 2..(Len(calls) - 1) :
        /\ calls[j - 1].ok /\ calls[j].ok /\ calls[j + 1].ok
        /\ calls[j - 1].len > 0
        /\ AllReturnedBefore(j)
        /\ calls[j].buf # calls[j - 1].buf
        /\ calls[j + 1].buf = calls[j].buf
        /\ calls[j + 1].len = 0

\* C5: the slice of a call has the buffer identity of the slice returned
\* before it exactly when no growth happened in between (for two calls in
\* succession: exactly when the second did not grow); the slice of a call that
\* grew differs in identity from every earlier slice, and the reader never
\* comes back to an earlier buffer.
C5_IdentityChangesWithGrowth ==
    \A j \in 1..Len(calls) :
        calls[j].ok =>
            /\ PrevOk(j) > 0 =>
                  (BufEq(heap, calls[j].buf, calls[PrevOk(j)].buf)
                      <=> (GrewBetween(PrevOk(j), j) = 0))
            /\ calls[j].grew > 0 =>
                  \A i \in 1..(j - 1) :
                      calls[i].ok => ~BufEq(heap, calls[i].buf, calls[j].buf)
            /\ \A i \in 1..(j - 1) : \A k \in (i + 1)..(j - 1) :
                  (calls[i].ok /\ calls[k].ok
                   /\ BufEq(heap, calls[i].buf, calls[j].buf))
                      => BufEq(heap, calls[k].buf, calls[i].buf)

\* Two calls in succession without growth on one buffer, then a call that grew.
C5_Witness ==
    \E j \in 3..Len(calls) :
        /\ calls[j - 2].ok /\ calls[j - 1].ok /\ calls[j].ok
        /\ calls[j - 1].grew = 0 /\ calls[j - 1].len > 0
        /\ BufEq(heap, calls[j - 1].buf, calls[j - 2].buf)
        /\ calls[j].grew > 0 /\ calls[j].len > 0
        /\ ~BufEq(heap, calls[j].buf, calls[j - 1].buf)

\* ------------------------------------------------------ session claims
\* C6: while a session runs, the buffer of every view it handed out is in its
\* tracked list, and the list and the views only grow; the bundle's owner() is
\* the list the session had, and holds the buffer of every view of
\* dependent().
C6_ViewsAreRetained ==
    [][/\ builder'.active =>
              \A i \in 1..Len(views') : views'[i].buf \in Range(builder'.bufs)
       /\ (builder.active /\ builder'.active) =>
              /\ IsPrefix(builder.bufs, builder'.bufs)
              /\ IsPrefix(views, views')
       /\ (builder.active /\ ~builder'.active /\ result'.kind = "bundle") =>
              /\ result'.owner = builder.bufs
              /\ result'.dependent = views
       /\ result'.kind = "bundle" =>
              \A i \in 1..Len(result'.dependent) :
                  result'.dependent[i].buf \in Range(result'.owner)]_vars

\* A bundle whose views lie in two buffers: the session's reads grew.
C6_Witness ==
    /\ result.kind = "bundle"
    /\ Cardinality({result.dependent[i].buf : i \in 1..Len(result.dependent)}) > 1
    /\ \E i \in 1..Len(result.dependent) : result.dependent[i].buf # buf.id

RECURSIVE FirstTouched(_)
\* The distinct elements of a sequence, in the order of their first appearance.
FirstTouched(ids) ==
    IF ids = <<>> THEN <<>>
    ELSE LET front == FirstTouched(SubSeq(ids, 1, Len(ids) - 1))
         IN  IF Last(ids) \in Range(front) THEN front ELSE Append(front, Last(ids))

BufsOf(vs) == [i \in 1..Len(vs) |-> vs[i].buf]

\* C7: owner() has one entry per distinct buffer of the session's successful
\* reads, in the order the buffers were first touched, none twice; with no
\* read it is empty. The tracked list has that shape all through the session.
C7_OwnerIsDistinctBuffers ==
    /\ builder.active => builder.bufs = FirstTouched(BufsOf(views))
    /\ result.kind = "bundle" =>
          /\ result.owner = FirstTouched(BufsOf(result.dependent))
          /\ Len(result.owner) = Cardinality(Range(BufsOf(result.dependent)))
          /\ Cardinality(Range(result.owner)) = Len(result.owner)
          /\ result.dependent = <<>> => result.owner = <<>>

\* A bundle of three reads or more over exactly two buffers.
C7_Witness ==
    /\ result.kind = "bundle"
    /\ Len(result.dependent) >= 3
    /\ Len(result.owner) = 2

\* C8: when the construction function returns an error, BufPair::new returns
\* that error and no bundle, and the session is gone with its list.
C8_FailureReturnsError ==
    (sessions > 0 /\ ~builder.active /\ ~made.ok) =>
        /\ result.kind = "err"
        /\ result.err = made.err
        /\ result.owner = <<>> /\ result.dependent = <<>>
        /\ builder = NoBuilder

\* A construction function that failed after two reads or more.
C8_Witness ==
    /\ result.kind = "err" /\ ~made.ok /\ made.err = "Interrupted"
    /\ made.reads >= 2

\* ------------------------------------------------------- source failure
\* C9: a failing source read ends the call in that step, with the source's
\* error and no slice; the consumed cursor does not advance; the source bytes
\* delivered and not yet returned are the available bytes of the current
\* buffer, so the next call's line begins with the bytes the failed call left.
C9_FailureKeepsBytes ==
    [][/\ reader'.errs # reader.errs =>
              /\ reader'.errs = reader.errs + 1
              /\ pc' = "idle"
              /\ Len(calls') = Len(calls) + 1
              /\ ~Last(calls').ok
              /\ Last(calls').err = reader'.raised
              /\ reader'.pos = reader.pos
              /\ buf'.consumed = (IF buf'.id = buf.id THEN buf.consumed ELSE 0)
              /\ available(heap', buf') = available(heap, buf)
       /\ (Len(calls') > Len(calls) /\ ~Last(calls').ok) =>
              reader'.errs = reader.errs + 1
       /\ available(heap', buf')
              = SubSeq(reader'.bytes, SumLen(calls', Len(calls') + 1) + 1, reader'.pos)
       /\ \A j \in 2..Len(calls') :
              (~calls'[j - 1].ok /\ calls'[j].ok) =>
                  IsPrefix(calls'[j - 1].data, SliceBytes(heap', calls'[j]))]_vars

\* A read failed after the call had accumulated bytes and grown; the next
\* call returned a line that holds those bytes.
C9_Witness ==
    \E j \in 2..Len(calls) :
        /\ ~calls[j - 1].ok /\ calls[j - 1].reads > 1 /\ calls[j - 1].grew > 0
        /\ calls[j - 1].data # <<>>
        /\ calls[j].ok /\ calls[j].len > Len(calls[j - 1].data)

\* ------------------------------------------------------- handle claims
\* C10: consume(n) with consumed + n > filled, and fill(n) with filled + n >
\* capacity, panic and change nothing; otherwise they advance that one cursor
\* by n and return the range [old cursor, old cursor + n).
C10_ConsumeFillContract ==
    [][/\ hres'.op = "consume" =>
              IF hb.consumed + hres'.n > hb.filled
              THEN hres'.panic /\ hb' = hb /\ heap' = heap
              ELSE /\ ~hres'.panic /\ heap' = heap
                   /\ hb' = [hb EXCEPT !.consumed = @ + hres'.n]
                   /\ hres'.off = hb.consumed /\ hres'.len = hres'.n
       /\ hres'.op = "fill" =>
              IF hb.filled + hres'.n > Capacity(heap, hb)
              THEN hres'.panic /\ hb' = hb /\ heap' = heap
              ELSE /\ ~hres'.panic /\ heap' = heap
                   /\ hb' = [hb EXCEPT !.filled = @ + hres'.n]
                   /\ hres'.off = hb.filled /\ hres'.len = hres'.n]_vars

\* ------------------------------------------------------- the test's claim
RECURSIVE LinesOf(_)
\* A byte string cut after each line feed.
LinesOf(s) ==
    IF s = <<>> THEN <<>>
    ELSE IF LineFeedsOf(s) = {} THEN <<s>>
    ELSE LET i == CHOOSE i \in LineFeedsOf(s) : \A j \in LineFeedsOf(s) : i <= j
         IN  <<SubSeq(s, 1, i)>> \o LinesOf(SubSeq(s, i + 1, Len(s)))

\* The calls of the test return its five lines, then the empty slice.
TestLinesReturned ==
    \A j \in 1..Len(calls) :
        /\ calls[j].ok
        /\ calls[j].data = (IF j <= Len(LinesOf(TestSource))
                            THEN LinesOf(TestSource)[j] ELSE <<>>)

\* C11 as stated: in the read_line test the first three lines come from one
\* buffer, the fourth from a different buffer than the third, and the call
\* after the last line returns an empty slice from the buffer of the last line.
C11_ThreeLinesOneBuffer ==
    Len(calls) = TestCalls =>
        /\ BufEq(heap, calls[2].buf, calls[1].buf)
        /\ BufEq(heap, calls[3].buf, calls[2].buf)
        /\ ~BufEq(heap, calls[4].buf, calls[3].buf)
        /\ calls[6].len = 0
        /\ BufEq(heap, calls[6].buf, calls[5].buf)

\* C11, amended: in the read_line test the calls return the five lines and
\* then the empty slice; the first two lines come from the initial buffer, the
\* third from a different buffer than the second (its call grows), the fourth
\* from the buffer of the third, the fifth from a different buffer than the
\* fourth, and the empty slice from the buffer of the fifth.
C11_TestBufferIdentities ==
    /\ TestLinesReturned
    /\ \A j \in 1..Len(calls) :
          CASE j = 1 -> BufEq(heap, calls[1].buf, 1)
            [] j = 2 -> BufEq(heap, calls[2].buf, calls[1].buf)
            [] j = 3 -> ~BufEq(heap, calls[3].buf, calls[2].buf) /\ calls[3].grew > 0
            [] j = 4 -> BufEq(heap, calls[4].buf, calls[3].buf)
            [] j = 5 -> ~BufEq(heap, calls[5].buf, calls[4].buf)
            [] j = 6 -> calls[6].len = 0 /\ BufEq(heap, calls[6].buf, calls[5].buf)
            [] OTHER -> FALSE

\* The six calls of the test are done, over lines of 28, 29, 67, 1 and 107
\* bytes read 8 bytes at a time.
C11_Witness ==
    /\ Len(calls) = TestCalls
    /\ [j \in 1..TestCalls |-> calls[j].len] = <<28, 29, 67, 1, 107, 0>>
    /\ reader.short = 0
    /\ Len(heap[calls[1].buf]) = 100


\* --------------------------------------------------------------- growth
\* C12: a step allocates a buffer only at the top of a loop iteration, with no
\* line feed among the available bytes and no unfilled space, and every such
\* iteration allocates one. The new buffer has capacity max(2 * |available|,
\* initial_capacity); the BufMut over it starts with consumed = 0 and filled =
\* |available| and replaces the reader's; its first bytes are the old available
\* bytes; the old buffer keeps its bytes, and the accumulated length grows by
\* what the iteration read and nothing else.
C12_GrowthStep ==
    [][LET k == Len(available(heap, buf))
           n == reader'.pos - reader.pos
           new == Len(heap) + 1
       IN  /\ Len(heap') # Len(heap) =>
                 /\ AtLoop
                 /\ ~find_lf(available(heap, buf)).some
                 /\ unfilledLen(heap, buf) = 0
                 /\ Len(heap') = new
                 /\ Len(heap'[new]) = Max(2 * k, initial_capacity)
                 /\ Grown.bm = [id |-> new, consumed |-> 0, filled |-> k]
                 /\ SubSeq(Grown.heap[new], 1, k) = available(heap, buf)
                 /\ SubSeq(heap'[new], 1, k) = available(heap, buf)
                 /\ buf'.id = new
                 /\ buf'.filled = k + n
                 /\ \A id \in 1..Len(heap) : heap'[id] = heap[id]
                 /\ dropped' = dropped \cup {buf}
                 /\ pc' = "loop" => cur'.len = LoopLen + n /\ buf'.consumed = 0
                 /\ (Len(calls') > Len(calls) /\ Last(calls').ok) =>
                       /\ Last(calls').off = 0
                       /\ Last(calls').len <= LoopLen + n
                       /\ Last(calls').len >= LoopLen
           /\ (AtLoop /\ unfilledLen(heap, buf) = 0
               /\ (pc' = "loop" \/ Len(calls') > Len(calls))) =>
                 Len(heap') = new
           /\ Len(heap') = Len(heap) => buf'.id = buf.id /\ dropped' = dropped]_vars

\* A call grew with bytes to carry over, from a buffer part of which had been
\* returned before, and returned a line from the new buffer.
C12_Witness ==
    /\ \E d \in dropped : d.consumed > 0 /\ d.filled > d.consumed
    /\ \E j \in 1..Len(calls) :
          /\ calls[j].ok /\ calls[j].grew > 0
          /\ calls[j].len > 1 /\ calls[j].buf > 1


\* ------------------------------------------------------ cursor invariant
\* C13: a BufMut always has 0 <= consumed <= filled <= capacity; no operation
\* changes the capacity of its buffer, and none moves a cursor back. Stated
\* for a BufMut used directly (new, consume, fill, append, writes) and for the
\* reader's.
C13_CursorsOrderedAndMonotone ==
    [][/\ hb'.id # 0 =>
              /\ 0 <= hb'.consumed /\ hb'.consumed <= hb'.filled
              /\ hb'.filled <= Capacity(heap', hb')
       /\ (hb.id # 0 /\ hb'.id = hb.id) =>
              /\ Capacity(heap', hb') = Capacity(heap, hb)
              /\ hb'.consumed >= hb.consumed
              /\ hb'.filled >= hb.filled
       /\ buf'.id # 0 =>
              /\ 0 <= buf'.consumed /\ buf'.consumed <= buf'.filled
              /\ buf'.filled <= Capacity(heap', buf')
       /\ (buf.id # 0 /\ buf'.id = buf.id) =>
              /\ Capacity(heap', buf') = Capacity(heap, buf)
              /\ buf'.consumed >= buf.consumed
              /\ buf'.filled >= buf.filled]_vars


\* ------------------------------------------------------ the buffered line
\* C14: a call made while the available bytes hold a line feed, the first at
\* offset i, ends in one step: it returns the slice of length i + 1 at the old
\* consumed cursor, without a source read or a growth, and advances consumed
\* by i + 1; the source, the filled cursor, the buffer and all buffers' bytes
\* stay what they were.
C14_BufferedLineFrame ==
    [][(pc = "idle" /\ LineFeedsOf(available(heap, buf)) # {}) =>
          LET lfs == LineFeedsOf(available(heap, buf))
              len == CHOOSE i \in lfs : \A j \in lfs : i <= j
          IN  /\ pc' = "idle"
              /\ calls' = Append(calls,
                    [ok |-> TRUE, err |-> "", buf |-> buf.id, off |-> buf.consumed,
                     len |-> len,
                     data |-> SubSeq(available(heap, buf), 1, len),
                     grew |-> 0, reads |-> 0, eof |-> FALSE])
              /\ buf' = [buf EXCEPT !.consumed = @ + len]
              /\ reader' = reader
              /\ heap' = heap
              /\ dropped' = dropped
              /\ initial_capacity' = initial_capacity]_vars

\* A line was returned from the bytes an earlier read had left in the buffer.
C14_Witness ==
    \E j \in 2..Len(calls) :
        /\ calls[j].ok /\ calls[j].reads = 0 /\ calls[j].len > 0
        /\ calls[j].off > 0
        /\ calls[j - 1].ok /\ calls[j - 1].reads > 0
        /\ calls[j - 1].buf = calls[j].buf


\* --------------------------------------------------------------- buffer()
\* C15: buffer() changes nothing of the reader, the source or the buffers, and
\* returns the identity of the reader's current buffer; the next read_line
\* call, if it returns a slice and did not grow, returns it from that buffer,
\* and if it grew, from another.
C15_BufferObservesIdentity ==
    [][/\ seen' # seen =>
              /\ seen'.id = buf.id
              /\ seen'.at = Len(calls)
              /\ UNCHANGED <<reader, heap, buf, initial_capacity, pc, cur,
                             dropped, calls>>
       /\ (seen.id # 0 /\ seen.at = Len(calls)
           /\ Len(calls') = Len(calls) + 1 /\ Last(calls').ok) =>
              (BufEq(heap', Last(calls').buf, seen.id) <=> Last(calls').grew = 0)]_vars

\* buffer() was called after a growth, between two calls; the next call read
\* from the source and returned a line from the buffer it had shown.
C15_Witness ==
    /\ seen.id > 1 /\ seen.at >= 1
    /\ Len(calls) = seen.at + 1
    /\ Last(calls).ok /\ Last(calls).reads > 0 /\ Last(calls).len > 0
    /\ Last(calls).buf = seen.id


\* ------------------------------------------------------------- lifetimes
\* The buffers the caller can still read: those of the Bytes it holds, of the
\* views of the running session, and of the views of the bundle.
Viewed ==
    {calls[i].buf : i \in kept}
    \cup {views[i].buf : i \in 1..Len(views)}
    \cup {result.dependent[i].buf : i \in 1..Len(result.dependent)}

\* The buffers something other than the reader's BufMut refers to.
Referenced ==
    Viewed \cup {seen.id} \cup Range(builder.bufs) \cup Range(result.owner)

\* C16: a buffer is freed only by a step that drops a holder of it, and then
\* only when no holder is left; a freed buffer is never held again; the buffer
\* a growth replaces is freed by that step exactly when no Bytes, Buf, list
\* entry or bundle refers to it; and no Bytes, session view or bundle view
\* lies in a freed buffer.
C16_BuffersLiveWhileHeld ==
    [][/\ \A id \in 1..Len(heap') :
              /\ (id <= Len(heap) /\ Freed(id)) => Freed(id)'
              /\ (id <= Len(heap) /\ ~Freed(id) /\ Freed(id)') =>
                    Holders(id)' < Holders(id)
              /\ id > Len(heap) => ~Freed(id)'
       /\ \A old \in {buf.id} :
              buf'.id # old => (Freed(old)' <=> old \notin Referenced')
       /\ \A id \in Viewed' : ~Freed(id)'
       /\ ~Freed(buf.id)']_vars

\* A growth freed the buffer it replaced while the caller read a Bytes in an
\* older buffer, and a bundle keeps a buffer the reader has left.
C16_Witness ==
    /\ \E id \in 1..Len(heap) : Freed(id) /\ \E i \in kept : calls[i].buf < id
    /\ result.kind = "bundle"
    /\ \E i \in 1..Len(result.dependent) : result.dependent[i].buf # buf.id


\* ------------------------------------------------------ the tracked list
RECURSIVE Collapse(_)
\* A sequence with every run of adjacent equal elements cut to one.
Collapse(ids) ==
    IF Len(ids) <= 1 THEN ids
    ELSE LET front == Collapse(SubSeq(ids, 1, Len(ids) - 1))
         IN  IF Last(front) = Last(ids) THEN front ELSE Append(front, Last(ids))

\* C17: a session read that returns a slice appends its buffer to the tracked
\* list exactly when the list is empty or its last entry is another buffer,
\* and leaves the entries it had in place; a read that fails, or is still
\* running, leaves the list as it is; the list is the sequence of the buffers
\* of the session's successful reads with runs of adjacent equal buffers cut
\* to one.
C17_TrackedListCollapsesRuns ==
    [][/\ (builder.active /\ builder'.active) =>
              IF Len(calls') = Len(calls) + 1 /\ Last(calls').ok
              THEN builder'.bufs =
                      (IF builder.bufs = <<>>
                          \/ ~BufEq(heap', Last(builder.bufs), Last(calls').buf)
                       THEN Append(builder.bufs, Last(calls').buf)
                       ELSE builder.bufs)
              ELSE builder'.bufs = builder.bufs
       /\ builder'.active => builder'.bufs = Collapse(BufsOf(views'))]_vars

\* A session of three reads over two buffers, then a read that failed.
C17_Witness ==
    /\ builder.active
    /\ Len(views) >= 3 /\ Len(builder.bufs) = 2
    /\ ~Last(calls).ok
    /\ \E i \in 2..Len(views) : views[i].buf = views[i - 1].buf


\* ------------------------------------------------------------ termination
\* C18: a call that is in its loop leaves it; an iteration that does not end
\* the call leaves more available bytes than there were (it read at least one
\* byte); a call grows at most once per iteration, and makes at most one
\* iteration per source byte read, and one more.
C18_CallsTerminate ==
    /\ (pc = "loop") ~> (pc # "loop")
    /\ [][pc' = "loop" =>
              /\ Len(available(heap', buf')) > Len(available(heap, buf))
              /\ reader'.pos > reader.pos
              /\ cur'.reads = (IF pc = "loop" THEN cur.reads ELSE 0) + 1]_vars
    /\ [](/\ cur.grew <= cur.reads
          /\ cur.reads <= reader.pos
          /\ \A j \in 1..Len(calls) :
                /\ calls[j].grew <= calls[j].reads
                /\ calls[j].reads <= Len(reader.bytes) + 1)

\* A call that took four iterations and grew twice before it ended.
C18_Witness ==
    \E j \in 1..Len(calls) :
        calls[j].ok /\ calls[j].reads >= 4 /\ calls[j].grew >= 2


\* ------------------------------------------------------- room for a read
\* C19: the destination of every source read of read_line, taken after the
\* growth step, has at least one byte; so the source answers 0 only when it
\* has no byte left, and a call that reports the end of the stream (it saw
\* the source return 0) does so with the source exhausted.
C19_ReadsGetRoom ==
    /\ AtLoop =>
          /\ ~Grown.panic
          /\ unfilledLen(Grown.heap, Grown.bm) > 0
          /\ \A o \in ReadNow :
                (o.err = "" /\ o.n = 0) => reader.pos = Len(reader.bytes)
    /\ \A j \in 1..Len(calls) :
          (calls[j].ok /\ calls[j].eof) => reader.pos = Len(reader.bytes)

\* A growth with no byte to carry over allocated a buffer of the initial
\* capacity, the call read a line into it, and a later call saw the end of the
\* stream.
C19_Witness ==
    /\ \E d \in dropped : d.consumed = d.filled
    /\ \E j \in 1..Len(calls) :
          /\ calls[j].ok /\ calls[j].grew > 0 /\ calls[j].len > 0
          /\ Len(heap[calls[j].buf]) = initial_capacity
    /\ \E j \in 1..Len(calls) : calls[j].ok /\ calls[j].eof


\* ------------------------------------------------- sessions and the reader
\* C20: the beginning and the end of BufPair::new, with a bundle or with an
\* error, leave the reader, its cursors, its buffer and the source as they
\* are; every session read is a read_line call of the reader; the consumed
\* cursor of a buffer never moves back; and every slice returned, through a
\* session or directly, holds the source bytes that follow those of the slice
\* returned before it, so no line comes twice and none is skipped.
C20_SessionReadsAreConsumed ==
    [][/\ builder.active # builder'.active =>
              UNCHANGED <<reader, heap, buf, initial_capacity, pc, cur, dropped,
                          calls>>
       /\ (builder.active /\ builder'.active) =>
              IF Len(calls') = Len(calls) + 1 /\ Last(calls').ok
              THEN views' = Append(views, [buf |-> Last(calls').buf,
                                           off |-> Last(calls').off,
                                           len |-> Last(calls').len])
              ELSE views' = views
       /\ buf'.id = buf.id => buf'.consumed >= buf.consumed
       /\ \A j \in 1..Len(calls') :
              calls'[j].ok =>
                  /\ calls'[j].data
                        = SubSeq(reader'.bytes, SumLen(calls', j) + 1,
                                 SumLen(calls', j) + calls'[j].len)
                  /\ SliceBytes(heap', calls'[j]) = calls'[j].data]_vars

\* A construction function read lines and failed; the next call, made by the
\* caller, returned the line after them from the bytes the session had left
\* in the buffer.
C20_Witness ==
    /\ result.kind = "err" /\ made.reads >= 1
    /\ Len(calls) = made.reads + 1
    /\ \A j \in 1..Len(calls) : calls[j].ok
    /\ Len(calls) \in kept
    /\ Last(calls).len > 0 /\ Last(calls).reads = 0


\* ------------------------------------------------------------ wrap-around
\* C21: for every n a usize holds, consume(n) panics when the unbounded sum
\* consumed + n exceeds filled, and fill(n) panics when the unbounded sum
\* filled + n exceeds the capacity, also when the word-sized sum wraps around.
C21_BoundsChecksDoNotWrap ==
    [][/\ (hres'.op = "consume" /\ hb.consumed + hres'.n > hb.filled) =>
              hres'.panic
       /\ (hres'.op = "fill" /\ hb.filled + hres'.n > Capacity(heap, hb)) =>
              hres'.panic]_vars

====
